---- MODULE Spec2Model ----
(***************************************************************************)
(* Model of the learning-rate scaling code of analysis/sgd_scaling.ipynb:  *)
(* lr_scale_func_sgd, the SGD wrapper built on                             *)
(* unit_scaling.optim.scaled_parameters, the notebook's gen_param_groups   *)
(* helper and the optimizers it builds with them; and of the ci command    *)
(* of the dev task launcher.                                               *)
(*                                                                         *)
(* Numbers.  Every multiplier, learning rate and weight decay of the code  *)
(* is a non-negative real of the form sqrt(n/d).  Such a value is held as  *)
(* its square, the fraction <<n, d>> in lowest terms, so that equality of  *)
(* two held values is equality of the reals and x ** 0.5, x ** -0.5 and    *)
(* products are exact.                                                     *)
(***************************************************************************)
EXTENDS Integers, Sequences, FiniteSets, TLC

VARIABLES
    pc,            \* "start" | "done" | "error": position of the call modelled;
                   \* "opt_b" | "opt_c" | "opt_c2" | "opt_c3": the optimizer cell run last
    params,        \* the parameter collection handed to the call (sequence of tensors)
    lr,            \* positional argument lr / base_lr
    kwargs,        \* values of the keyword arguments of SGD.__init__
    supplied,      \* names of the keyword arguments the caller wrote
    depth_law,     \* the depth law plugged into lr_scale_for_depth
    lr_mods,       \* gen_param_groups: the hand-written multiplier list
    mult,          \* result of one application of lr_scale_func_sgd(...)(param)
    error,         \* the exception that ended the call, "none" otherwise
    param_groups,  \* groups received by the base optimizer / returned to the caller
    history,       \* the earlier constructions of the process: arguments and outcome
    heap,          \* the list objects allocated by gen_param_groups, by handle
    dims,          \* the notebook's globals b, d_inp, d_hid, d_out
    step,          \* dev launcher: the step ci is at, "finished" or "exited"
    skip,          \* dev launcher: the skip argument of ci
    started,       \* dev launcher: the commands started so far, with their exit codes
    exit_code      \* dev launcher: the exit code of the process

\* the variables of the dev launcher
dev == <<step, skip, started, exit_code>>

\* the variables of the notebook
notebook == <<pc, params, lr, kwargs, supplied, depth_law, lr_mods, mult, error,
              param_groups, history, heap, dims>>

vars == <<pc, params, lr, kwargs, supplied, depth_law, lr_mods, mult, error, param_groups,
          history, heap, dims, step, skip, started, exit_code>>

----------------------------------------------------------------------------
(* Bounds *)

MaxDim == 3
MaxDepth == 1
MaxParams == 2

\* calls of a builder in one process
MaxCalls == 3

----------------------------------------------------------------------------
(* Exact arithmetic on squares *)

RECURSIVE GCD(_, _)
GCD(a, b) == IF b = 0 THEN a ELSE GCD(b, a % b)

Frac(n, d) == IF n = 0 THEN <<0, 1>> ELSE <<n \div GCD(n, d), d \div GCD(n, d)>>

\* the integer k as a held value
FromInt(k) == <<k * k, 1>>

One == FromInt(1)

\* x * y
Mul(x, y) == Frac(x[1] * y[1], x[2] * y[2])

\* n ** 0.5 and n ** -0.5 for a positive integer n
PowHalf(n) == <<n, 1>>
PowMinusHalf(n) == <<1, n>>

\* a value returned, or an exception raised
Returned(v) == [error |-> "none", value |-> v]
Raised(e) == [error |-> e, value |-> <<0, 1>>]

----------------------------------------------------------------------------
(* Parameters: a tensor with its tag *)

MupTypes == {"weight", "bias", "norm", "output"}

\* "embedding": tagged with a type the scale function does not handle;
\* "untagged": a plain tensor with no mup_type attribute
OtherTypes == {"embedding", "untagged"}

Dims == 1..MaxDim

Shapes == {<<a>> : a \in Dims} \cup {<<a, b>> : a \in Dims, b \in Dims}

\* the layers of the notebook's models, one parameter each
Layers == 3

Tensors == [id : (1..MaxParams) \cup (1..Layers), mup_type : MupTypes \cup OtherTypes,
            shape : Shapes, depth : 0..MaxDepth]

ReadoutConstraints == {"None", "to_output_scale", "gmean"}

DepthLaws == {"inv_sqrt", "inv"}

----------------------------------------------------------------------------
(* unit_scaling.optim helpers used by the notebook *)

\* variant of the depth law that counts the first layer as depth 1 of 2: not
\* 1 at depth_index 0
lr_scale_for_depth_off_by_one(param) ==
    IF depth_law = "inv_sqrt"
    THEN PowMinusHalf(2 + param.depth)
    ELSE Frac(1, (2 + param.depth) * (2 + param.depth))

\* uu.optim.lr_scale_for_depth(param): 1 at depth_index 0, decreasing with
\* depth under the plugged-in law
lr_scale_for_depth(param) ==
    IF depth_law = "inv_sqrt"
    THEN PowMinusHalf(1 + param.depth)
    ELSE Frac(1, (1 + param.depth) * (1 + param.depth))

\* uu.optim._get_fan_in(param): the contracted dimension of a matrix
\* (weight.shape[1], as in the notebook's 1/sqrt(fan_in) init); a tensor with
\* fewer than two dimensions has no fan-in/fan-out pair
_get_fan_in(param) ==
    IF Len(param.shape) < 2
    THEN [error |-> "ValueError: cannot get fan_in", value |-> 0]
    ELSE [error |-> "none", value |-> param.shape[2]]

----------------------------------------------------------------------------
(* lr_scale_func_sgd *)

\* variants of lr_scale_func_sgd_inner with one slip each
\* the two exponents of the weight branch exchanged
inner_exponents_exchanged(readout_constraint, param) ==
    LET scale == lr_scale_for_depth(param)
        fan_in == _get_fan_in(param)
    IN  IF param.mup_type = "untagged"
        THEN Raised("AttributeError: mup_type")
        ELSE IF param.mup_type \in {"bias", "norm"}
        THEN Returned(Mul(scale, FromInt(param.shape[1])))
        ELSE IF param.mup_type = "weight"
        THEN IF readout_constraint = "None"
             THEN IF fan_in.error # "none" THEN Raised(fan_in.error)
                  ELSE Returned(Mul(scale, PowHalf(fan_in.value)))
             ELSE IF readout_constraint = "to_output_scale"
             THEN IF fan_in.error # "none" THEN Raised(fan_in.error)
                  ELSE Returned(Mul(scale, PowMinusHalf(fan_in.value)))
             ELSE Raised("AssertionError: Unhandled readout constraint")
        ELSE IF param.mup_type = "output"
        THEN Returned(scale)
        ELSE Raised("AssertionError: Unexpected mup_type")

\* "norm" left out of the tuple of the first test
inner_norm_forgotten(readout_constraint, param) ==
    LET scale == lr_scale_for_depth(param)
        fan_in == _get_fan_in(param)
    IN  IF param.mup_type = "untagged"
        THEN Raised("AttributeError: mup_type")
        ELSE IF param.mup_type \in {"bias"}
        THEN Returned(Mul(scale, FromInt(param.shape[1])))
        ELSE IF param.mup_type = "weight"
        THEN IF readout_constraint = "None"
             THEN IF fan_in.error # "none" THEN Raised(fan_in.error)
                  ELSE Returned(Mul(scale, PowMinusHalf(fan_in.value)))
             ELSE IF readout_constraint = "to_output_scale"
             THEN IF fan_in.error # "none" THEN Raised(fan_in.error)
                  ELSE Returned(Mul(scale, PowHalf(fan_in.value)))
             ELSE Raised("AssertionError: Unhandled readout constraint")
        ELSE IF param.mup_type = "output"
        THEN Returned(scale)
        ELSE Raised("AssertionError: Unexpected mup_type")

\* the output layer handled by the weight branch
inner_output_as_weight(readout_constraint, param) ==
    LET scale == lr_scale_for_depth(param)
        fan_in == _get_fan_in(param)
    IN  IF param.mup_type = "untagged"
        THEN Raised("AttributeError: mup_type")
        ELSE IF param.mup_type \in {"bias", "norm"}
        THEN Returned(Mul(scale, FromInt(param.shape[1])))
        ELSE IF param.mup_type \in {"weight", "output"}
        THEN IF readout_constraint = "None"
             THEN IF fan_in.error # "none" THEN Raised(fan_in.error)
                  ELSE Returned(Mul(scale, PowMinusHalf(fan_in.value)))
             ELSE IF readout_constraint = "to_output_scale"
             THEN IF fan_in.error # "none" THEN Raised(fan_in.error)
                  ELSE Returned(Mul(scale, PowHalf(fan_in.value)))
             ELSE Raised("AssertionError: Unhandled readout constraint")
        ELSE Raised("AssertionError: Unexpected mup_type")

\* the weight branch reading param.shape[0] as the bias branch does
inner_weight_first_dim(readout_constraint, param) ==
    LET scale == lr_scale_for_depth(param)
    IN  IF param.mup_type = "untagged"
        THEN Raised("AttributeError: mup_type")
        ELSE IF param.mup_type \in {"bias", "norm"}
        THEN Returned(Mul(scale, FromInt(param.shape[1])))
        ELSE IF param.mup_type = "weight"
        THEN IF readout_constraint = "None"
             THEN Returned(Mul(scale, PowMinusHalf(param.shape[1])))
             ELSE IF readout_constraint = "to_output_scale"
             THEN Returned(Mul(scale, PowHalf(param.shape[1])))
             ELSE Raised("AssertionError: Unhandled readout constraint")
        ELSE IF param.mup_type = "output"
        THEN Returned(scale)
        ELSE Raised("AssertionError: Unexpected mup_type")

lr_scale_func_sgd_inner(readout_constraint, param) ==
    LET scale == lr_scale_for_depth(param)
        fan_in == _get_fan_in(param)
    IN  IF param.mup_type = "untagged"
        THEN Raised("AttributeError: mup_type")
        ELSE IF param.mup_type \in {"bias", "norm"}
        THEN Returned(Mul(scale, FromInt(param.shape[1])))
        ELSE IF param.mup_type = "weight"
        THEN IF readout_constraint = "None"
             THEN IF fan_in.error # "none" THEN Raised(fan_in.error)
                  ELSE Returned(Mul(scale, PowMinusHalf(fan_in.value)))
             ELSE IF readout_constraint = "to_output_scale"
             THEN IF fan_in.error # "none" THEN Raised(fan_in.error)
                  ELSE Returned(Mul(scale, PowHalf(fan_in.value)))
             ELSE Raised("AssertionError: Unhandled readout constraint")
        ELSE IF param.mup_type = "output"
        THEN Returned(scale)
        ELSE Raised("AssertionError: Unexpected mup_type")

\* the closure returned by lr_scale_func_sgd(readout_constraint)
lr_scale_func_sgd(readout_constraint) ==
    [param \in Tensors |-> lr_scale_func_sgd_inner(readout_constraint, param)]

----------------------------------------------------------------------------
(* uu.optim.scaled_parameters: the group builder *)

\* the group of one parameter, or the error it ends the build with
scaled_group(param, lr_scale_func, base_lr, weight_decay, independent_weight_decay, allow_non_unit_scaling_params) ==
    IF param.mup_type \notin MupTypes
    THEN IF allow_non_unit_scaling_params
         THEN [error |-> "none",
               group |-> [params |-> <<param>>, lr |-> base_lr,
                          weight_decay |-> weight_decay]]
         ELSE [error |-> "ValueError: non-unit-scaling parameter",
               group |-> [params |-> <<>>, lr |-> <<0, 1>>, weight_decay |-> <<0, 1>>]]
    ELSE LET m == lr_scale_func[param]
         IN  IF m.error # "none"
             THEN [error |-> m.error,
                   group |-> [params |-> <<>>, lr |-> <<0, 1>>, weight_decay |-> <<0, 1>>]]
             ELSE [error |-> "none",
                   group |-> [params |-> <<param>>,
                              lr |-> Mul(base_lr, m.value),
                              weight_decay |->
                                  IF independent_weight_decay
                                  THEN weight_decay
                                  ELSE Mul(weight_decay, m.value)]]

\* the loop over the parameters from position k on, result holding the groups
\* emitted so far; the first error ends it
RECURSIVE scaled_parameters_from(_, _, _, _, _, _, _, _)
scaled_parameters_from(k, result, ps, lr_scale_func, base_lr, weight_decay, independent_weight_decay, allow_non_unit_scaling_params) ==
    IF k > Len(ps)
    THEN [error |-> "none", groups |-> result]
    ELSE LET g == scaled_group(ps[k], lr_scale_func, base_lr, weight_decay,
                               independent_weight_decay,
                               allow_non_unit_scaling_params)
         IN  IF g.error # "none"
             THEN [error |-> g.error, groups |-> <<>>]
             ELSE scaled_parameters_from(k + 1, Append(result, g.group), ps,
                                         lr_scale_func, base_lr, weight_decay,
                                         independent_weight_decay,
                                         allow_non_unit_scaling_params)

scaled_parameters(ps, lr_scale_func, base_lr, weight_decay, independent_weight_decay, allow_non_unit_scaling_params) ==
    scaled_parameters_from(1, <<>>, ps, lr_scale_func, base_lr, weight_decay,
                           independent_weight_decay, allow_non_unit_scaling_params)

----------------------------------------------------------------------------
(* class SGD(torch.optim.SGD) *)

KwNames == {"weight_decay", "independent_weight_decay",
            "allow_non_unit_scaling_params", "readout_constraint"}

\* the value a keyword argument takes in the body of __init__
Arg(kw, given, name, default) == IF name \in given THEN kw[name] ELSE default

\* variants of SGD.__init__ with one slip each
\* allow_non_unit_scaling_params not forwarded: always on
SGD_init_always_allows(ps, base_lr, kw, given) ==
    scaled_parameters(
        ps,
        lr_scale_func_sgd(Arg(kw, given, "readout_constraint", "None")),
        base_lr,
        Arg(kw, given, "weight_decay", <<0, 1>>),
        Arg(kw, given, "independent_weight_decay", TRUE),
        TRUE)

\* allow_non_unit_scaling_params not forwarded: always off
SGD_init_never_allows(ps, base_lr, kw, given) ==
    scaled_parameters(
        ps,
        lr_scale_func_sgd(Arg(kw, given, "readout_constraint", "None")),
        base_lr,
        Arg(kw, given, "weight_decay", <<0, 1>>),
        Arg(kw, given, "independent_weight_decay", TRUE),
        FALSE)

\* readout_constraint not forwarded to lr_scale_func_sgd
SGD_init_drops_readout(ps, base_lr, kw, given) ==
    scaled_parameters(
        ps,
        lr_scale_func_sgd("None"),
        base_lr,
        Arg(kw, given, "weight_decay", <<0, 1>>),
        Arg(kw, given, "independent_weight_decay", TRUE),
        Arg(kw, given, "allow_non_unit_scaling_params", FALSE))

\* independent_weight_decay defaulting to False
SGD_init_coupled_default(ps, base_lr, kw, given) ==
    scaled_parameters(
        ps,
        lr_scale_func_sgd(Arg(kw, given, "readout_constraint", "None")),
        base_lr,
        Arg(kw, given, "weight_decay", <<0, 1>>),
        Arg(kw, given, "independent_weight_decay", FALSE),
        Arg(kw, given, "allow_non_unit_scaling_params", FALSE))

\* readout_constraint defaulting to "to_output_scale"
SGD_init_constrained_default(ps, base_lr, kw, given) ==
    scaled_parameters(
        ps,
        lr_scale_func_sgd(Arg(kw, given, "readout_constraint", "to_output_scale")),
        base_lr,
        Arg(kw, given, "weight_decay", <<0, 1>>),
        Arg(kw, given, "independent_weight_decay", TRUE),
        Arg(kw, given, "allow_non_unit_scaling_params", FALSE))

\* the scale function built from the constraint of the construction before
\* (None at the first), as with a constraint kept in a module-level variable
SGD_init_stale_constraint(ps, base_lr, kw, given) ==
    scaled_parameters(
        ps,
        lr_scale_func_sgd(IF history = <<>>
                          THEN "None"
                          ELSE Arg(history[Len(history)].kwargs,
                                   history[Len(history)].supplied,
                                   "readout_constraint", "None")),
        base_lr,
        Arg(kw, given, "weight_decay", <<0, 1>>),
        Arg(kw, given, "independent_weight_decay", TRUE),
        Arg(kw, given, "allow_non_unit_scaling_params", FALSE))

\* SGD.__init__ up to the call of super().__init__: the groups it passes on,
\* or the error raised before
SGD_init(ps, base_lr, kw, given) ==
    scaled_parameters(
        ps,
        lr_scale_func_sgd(Arg(kw, given, "readout_constraint", "None")),
        base_lr,
        Arg(kw, given, "weight_decay", <<0, 1>>),
        Arg(kw, given, "independent_weight_decay", TRUE),
        Arg(kw, given, "allow_non_unit_scaling_params", FALSE))

----------------------------------------------------------------------------
(* gen_param_groups *)

Min(a, b) == IF a < b THEN a ELSE b

\* zip(model.parameters(), lr_mods) stops at the shorter of the two
gen_param_groups(model, base_lr, mods) ==
    [k \in 1..Min(Len(model), Len(mods)) |->
        [params |-> <<model[k]>>, lr |-> Mul(base_lr, mods[k])]]

\* variant of the allocation in gen_param_groups: the accumulator is one list
\* shared by all calls (a mutable default argument) instead of a new list
gen_param_groups_shared_list(h, model, base_lr, mods) ==
    IF h = <<>>
    THEN [heap |-> <<gen_param_groups(model, base_lr, mods)>>, handle |-> 1]
    ELSE [heap |-> [h EXCEPT ![1] = @ \o gen_param_groups(model, base_lr, mods)],
          handle |-> 1]

\* gen_param_groups as a call on the heap h of the lists allocated so far:
\* parameter_groups = [] is a new list, filled by the loop and returned by
\* its handle
gen_param_groups_call(h, model, base_lr, mods) ==
    [heap |-> Append(h, gen_param_groups(model, base_lr, mods)),
     handle |-> Len(h) + 1]

----------------------------------------------------------------------------
(* Inputs *)

\* collections of at least one and at most MaxParams tensors; the tensor at
\* position k of a model is the tensor with id k
ParamLists(T) ==
    UNION {{ps \in [1..n -> T] : \A k \in 1..n : ps[k].id = k} : n \in 1..MaxParams}

\* the tensors the group builder is run on: a vector and a matrix, tagged
\* with a handled type at the first or at the last depth, or not tagged (and
\* then without a depth)
BuildTensors ==
    {t \in Tensors : /\ t.shape \in {<<3>>, <<2, 3>>}
                     /\ \/ t.mup_type \in MupTypes /\ t.depth \in {0, MaxDepth}
                        \/ t.mup_type = "untagged" /\ t.depth = 0}

\* 0.1, the notebook's base learning rate, and 0.1 * 3 ** 0.5
LearningRates == {Frac(1, 100), Frac(3, 100)}

\* the keyword arguments a caller may write, and the place holders of those
\* left out
KwValues ==
    [weight_decay : {<<0, 1>>, Frac(1, 100)},
     independent_weight_decay : BOOLEAN,
     allow_non_unit_scaling_params : BOOLEAN,
     readout_constraint : ReadoutConstraints \cup {"unset"}]

KwCalls ==
    {c \in [kw : KwValues, given : SUBSET KwNames] :
        /\ ("weight_decay" \in c.given) = (c.kw.weight_decay # <<0, 1>>)
        /\ "independent_weight_decay" \notin c.given
              => ~c.kw.independent_weight_decay
        /\ "allow_non_unit_scaling_params" \notin c.given
              => ~c.kw.allow_non_unit_scaling_params
        /\ ("readout_constraint" \in c.given) = (c.kw.readout_constraint # "unset")}

NoKw ==
    [weight_decay |-> <<0, 1>>, independent_weight_decay |-> FALSE,
     allow_non_unit_scaling_params |-> FALSE, readout_constraint |-> "unset"]

NotCalled == [error |-> "not called", value |-> <<0, 1>>]

\* the batch size and the widths the notebook sets
NotebookDims == [b |-> 3, d_inp |-> 5, d_hid |-> 7, d_out |-> 11]

\* the dev launcher not run
DevIdle ==
    /\ step = "idle"
    /\ skip = {}
    /\ started = <<>>
    /\ exit_code = 0

----------------------------------------------------------------------------
(* One construction of the SGD wrapper *)

Init ==
    /\ pc = "start"
    /\ params \in ParamLists(BuildTensors)
    /\ lr = Frac(1, 100)
    /\ \E c \in KwCalls : kwargs = c.kw /\ supplied = c.given
    /\ depth_law = "inv_sqrt"
    /\ lr_mods = <<>>
    /\ mult = NotCalled
    /\ error = "none"
    /\ param_groups = <<>>
    /\ history = <<>>
    /\ heap = <<>>
    /\ dims = NotebookDims
    /\ DevIdle

\* scaled_parameters returned: super().__init__ receives the groups
SGD_constructed ==
    /\ pc = "start"
    /\ LET r == SGD_init(params, lr, kwargs, supplied)
       IN  /\ r.error = "none"
           /\ param_groups' = r.groups
           /\ error' = "none"
    /\ pc' = "done"
    /\ UNCHANGED <<params, lr, kwargs, supplied, depth_law, lr_mods, mult,
                   history, heap, dims, dev>>

\* scaled_parameters raised: the exception leaves __init__
SGD_raised ==
    /\ pc = "start"
    /\ LET r == SGD_init(params, lr, kwargs, supplied)
       IN  /\ r.error # "none"
           /\ error' = r.error
    /\ pc' = "error"
    /\ UNCHANGED <<params, lr, kwargs, supplied, depth_law, lr_mods, mult, param_groups,
                   history, heap, dims, dev>>

Next == SGD_constructed \/ SGD_raised

Spec == Init /\ [][Next]_vars

----------------------------------------------------------------------------
(* One application of lr_scale_func_sgd(readout_constraint) to one tensor *)

InitScale ==
    /\ pc = "start"
    /\ params \in {<<t>> : t \in {u \in Tensors : u.id = 1}}
    /\ lr = Frac(1, 100)
    /\ \E rc \in ReadoutConstraints :
          kwargs = [NoKw EXCEPT !.readout_constraint = rc]
    /\ supplied = {"readout_constraint"}
    /\ depth_law \in DepthLaws
    /\ lr_mods = <<>>
    /\ mult = NotCalled
    /\ error = "none"
    /\ param_groups = <<>>
    /\ history = <<>>
    /\ heap = <<>>
    /\ dims = NotebookDims
    /\ DevIdle

ApplyScale ==
    /\ pc = "start"
    /\ mult' = lr_scale_func_sgd(kwargs.readout_constraint)[params[1]]
    /\ pc' = "done"
    /\ UNCHANGED <<params, lr, kwargs, supplied, depth_law, lr_mods, error, param_groups,
                   history, heap, dims, dev>>

NextScale == ApplyScale

SpecScale == InitScale /\ [][NextScale]_vars

----------------------------------------------------------------------------
(* One call of gen_param_groups *)

\* entries of the hand-written tables of the notebook: 1, d ** 0.5 and d
\* for a width d
LrMods == {One} \cup {PowHalf(d) : d \in 2..MaxDim} \cup {FromInt(d) : d \in 2..MaxDim}

InitGen ==
    /\ pc = "start"
    /\ params \in ParamLists({t \in BuildTensors : t.mup_type \in {"weight", "output"}
                                                    /\ t.shape = <<2, 3>> /\ t.depth = 0})
    /\ lr \in LearningRates
    /\ kwargs = NoKw
    /\ supplied = {}
    /\ depth_law = "inv_sqrt"
    /\ lr_mods \in UNION {[1..n -> LrMods] : n \in 1..MaxParams}
    /\ mult = NotCalled
    /\ error = "none"
    /\ param_groups = <<>>
    /\ history = <<>>
    /\ heap = <<>>
    /\ dims = NotebookDims
    /\ DevIdle

GenParamGroups ==
    /\ pc = "start"
    /\ param_groups' = gen_param_groups(params, lr, lr_mods)
    /\ pc' = "done"
    /\ UNCHANGED <<params, lr, kwargs, supplied, depth_law, lr_mods, mult, error,
                   history, heap, dims, dev>>

NextGen == GenParamGroups

SpecGen == InitGen /\ [][NextGen]_vars

----------------------------------------------------------------------------
(* Properties of lr_scale_func_sgd, checked under SpecScale *)

\* the tensor and the constraint of the application
TheParam == params[1]
TheConstraint == kwargs.readout_constraint

\* the application returned a multiplier for a weight matrix
WeightMatrixScaled ==
    /\ pc = "done"
    /\ TheParam.mup_type = "weight"
    /\ Len(TheParam.shape) = 2

\* C1 as stated: for a weight the multiplier is depth_scale * fan_in ** e with
\* e = -0.5 under readout_constraint = to_output_scale and e = +0.5 under
\* readout_constraint = none, and the two multipliers over depth_scale are
\* reciprocals.
C1_ExponentsAsStated ==
    WeightMatrixScaled =>
        /\ TheConstraint = "to_output_scale" =>
              mult = Returned(Mul(lr_scale_for_depth(TheParam),
                                  PowMinusHalf(TheParam.shape[2])))
        /\ TheConstraint = "None" =>
              mult = Returned(Mul(lr_scale_for_depth(TheParam),
                                  PowHalf(TheParam.shape[2])))

\* C1 amended: for a weight with a fan-in the multiplier is
\* depth_scale * fan_in ** e with e = -0.5 under readout_constraint = None and
\* e = +0.5 under readout_constraint = to_output_scale; the product of the two
\* multipliers of one parameter is depth_scale squared (over depth_scale they
\* are reciprocals).
C1_WeightExponents ==
    WeightMatrixScaled =>
        /\ TheConstraint = "None" =>
              /\ mult = Returned(Mul(lr_scale_for_depth(TheParam),
                                     PowMinusHalf(TheParam.shape[2])))
              /\ Mul(mult.value,
                     lr_scale_func_sgd("to_output_scale")[TheParam].value)
                   = Mul(lr_scale_for_depth(TheParam), lr_scale_for_depth(TheParam))
        /\ TheConstraint = "to_output_scale" =>
              /\ mult = Returned(Mul(lr_scale_for_depth(TheParam),
                                     PowHalf(TheParam.shape[2])))
              /\ Mul(mult.value, lr_scale_func_sgd("None")[TheParam].value)
                   = Mul(lr_scale_for_depth(TheParam), lr_scale_for_depth(TheParam))

\* a weight of fan-in 3 at depth 1 scaled under the default constraint
C1_Witness ==
    /\ WeightMatrixScaled
    /\ TheParam.shape = <<2, 3>>
    /\ TheParam.depth = 1
    /\ TheConstraint = "None"
    /\ depth_law = "inv_sqrt"
    /\ mult = Returned(<<1, 6>>)

\* C2: for a bias or a norm parameter the multiplier is depth_scale times the
\* size of its first dimension, whatever readout_constraint is, recognised or
\* not.
C2_BiasNorm ==
    (pc = "done" /\ TheParam.mup_type \in {"bias", "norm"}) =>
        /\ mult = Returned(Mul(lr_scale_for_depth(TheParam),
                               FromInt(TheParam.shape[1])))
        /\ \A rc \in ReadoutConstraints : lr_scale_func_sgd(rc)[TheParam] = mult

\* a norm vector of 3 elements at depth 1 scaled under an unrecognised constraint
C2_Witness ==
    /\ pc = "done"
    /\ TheParam.mup_type = "norm"
    /\ TheParam.shape = <<3>>
    /\ TheParam.depth = 1
    /\ TheConstraint = "gmean"
    /\ depth_law = "inv_sqrt"
    /\ mult = Returned(<<9, 2>>)

\* C3: for an output parameter the multiplier is depth_scale exactly, whatever
\* its shape (fan-in, fan-out) and whatever readout_constraint is.
C3_Output ==
    (pc = "done" /\ TheParam.mup_type = "output") =>
        /\ mult = Returned(lr_scale_for_depth(TheParam))
        /\ \A rc \in ReadoutConstraints, sh \in Shapes :
              lr_scale_func_sgd(rc)[[TheParam EXCEPT !.shape = sh]] = mult

\* an output matrix of fan-in 3 at depth 1 scaled under to_output_scale
C3_Witness ==
    /\ pc = "done"
    /\ TheParam.mup_type = "output"
    /\ TheParam.shape = <<2, 3>>
    /\ TheParam.depth = 1
    /\ TheConstraint = "to_output_scale"
    /\ depth_law = "inv_sqrt"
    /\ mult = Returned(<<1, 2>>)

----------------------------------------------------------------------------
(* Properties of the SGD wrapper, checked under Spec *)

\* what the caller asked for, read off the call
Allowed == "allow_non_unit_scaling_params" \in supplied /\ kwargs.allow_non_unit_scaling_params
Independent == "independent_weight_decay" \notin supplied \/ kwargs.independent_weight_decay
Constraint == IF "readout_constraint" \in supplied THEN kwargs.readout_constraint ELSE "None"
BaseDecay == IF "weight_decay" \in supplied THEN kwargs.weight_decay ELSE <<0, 1>>

Recognised(t) == t.mup_type \in MupTypes
Positions == 1..Len(params)
Ended == pc # "start"

\* the multiplier the builder applies to the tensor at position k
Multiplier(k) ==
    IF Recognised(params[k])
    THEN lr_scale_func_sgd_inner(Constraint, params[k]).value
    ELSE One

\* C4: without allow_unrecognized, a collection holding a parameter whose role
\* is none of weight, bias, norm, output ends the build in an error: no
\* multiplier is returned for that parameter and the base optimizer receives
\* no group.
C4_UnrecognisedRejected ==
    (Ended /\ ~Allowed /\ \E k \in Positions : ~Recognised(params[k])) =>
        /\ pc = "error"
        /\ error # "none"
        /\ param_groups = <<>>
    /\ history = <<>>
    /\ heap = <<>>
    /\ dims = NotebookDims
    /\ DevIdle
        /\ \A k \in Positions, ty \in OtherTypes :
              ~Recognised(params[k]) =>
                  lr_scale_func_sgd(Constraint)[[params[k] EXCEPT !.mup_type = ty]].error # "none"

\* a weight matrix followed by an untagged tensor, refused
C4_Witness ==
    /\ pc = "error"
    /\ ~Allowed
    /\ Len(params) = 2
    /\ params[1].mup_type = "weight" /\ params[1].shape = <<2, 3>>
    /\ params[2].mup_type = "untagged"
    /\ Constraint = "None"
    /\ error = "ValueError: non-unit-scaling parameter"
    /\ param_groups = <<>>
    /\ history = <<>>
    /\ heap = <<>>
    /\ dims = NotebookDims
    /\ DevIdle

\* C5: with allow_unrecognized the build never fails because of an
\* unrecognised role (it ends as the build of the recognised parameters alone
\* ends); a parameter without a recognised role is emitted with lr = base_lr
\* and weight_decay = base_weight_decay, and a parameter with a recognised
\* role gets the group it gets without the flag.
C5_UnrecognisedPassedThrough ==
    (Ended /\ Allowed) =>
        LET strict == [kwargs EXCEPT !.allow_non_unit_scaling_params = FALSE]
            rest == SGD_init(SelectSeq(params, Recognised), lr, strict, supplied)
        IN  /\ error = rest.error
            /\ pc = "done" =>
                  /\ Len(param_groups) = Len(params)
                  /\ \A k \in Positions :
                        IF Recognised(params[k])
                        THEN param_groups[k] = SGD_init(<<params[k]>>, lr, strict, supplied).groups[1]
                        ELSE param_groups[k] = [params |-> <<params[k]>>, lr |-> lr,
                                                weight_decay |-> BaseDecay]

\* an untagged tensor followed by a weight matrix, built with decay 0.1
C5_Witness ==
    /\ pc = "done"
    /\ Allowed
    /\ Len(params) = 2
    /\ params[1].mup_type = "untagged"
    /\ params[2].mup_type = "weight" /\ params[2].shape = <<2, 3>> /\ params[2].depth = 0
    /\ Constraint = "None"
    /\ BaseDecay = <<1, 100>>
    /\ param_groups[1].lr = <<1, 100>>
    /\ param_groups[1].weight_decay = <<1, 100>>
    /\ param_groups[2].lr = <<1, 300>>

\* C6 as stated: with readout_constraint outside {none, to_output_scale} the
\* build of every non-empty collection ends in an error, whatever the roles,
\* and the base optimizer receives no group.
C6_UnknownConstraintRejected ==
    (Ended /\ Constraint \notin {"None", "to_output_scale"}) =>
        pc = "error" /\ param_groups = <<>>

\* a weight or output parameter with fewer than two dimensions is in the collection
HasVector(types) ==
    \E k \in Positions : params[k].mup_type \in types /\ Len(params[k].shape) < 2

\* C7 as stated: a weight or output parameter with fewer than two dimensions
\* ends the build in an error, for both roles and every readout_constraint.
C7_VectorRejectedAsStated ==
    (Ended /\ HasVector({"weight", "output"})) => pc = "error"

\* C7 amended: a weight parameter with fewer than two dimensions ends the
\* build in an error for every readout_constraint and no group is emitted; an
\* output parameter with fewer than two dimensions is accepted and gets
\* lr = base_lr * depth_scale.
C7_WeightVectorRejected ==
    /\ (Ended /\ HasVector({"weight"})) => (pc = "error" /\ param_groups = <<>>)
    /\ pc = "done" =>
          \A k \in Positions :
              params[k].mup_type = "output" =>
                  param_groups[k].lr = Mul(lr, lr_scale_for_depth(params[k]))

\* a build refused for its weight vector alone, and nothing else
C7_Witness ==
    /\ pc = "error"
    /\ Len(params) = 2
    /\ params[1].mup_type = "output" /\ params[1].shape = <<3>>
    /\ params[2].mup_type = "weight" /\ params[2].shape = <<3>>
    /\ Constraint = "to_output_scale"
    /\ error = "ValueError: cannot get fan_in"

C10_WeightDecayPolicies ==
    pc = "done" =>
        LET flipped == [kwargs EXCEPT !.independent_weight_decay = ~Independent]
            other == SGD_init(params, lr, flipped, supplied \cup {"independent_weight_decay"})
        IN  \A k \in Positions :
                /\ Independent => param_groups[k].weight_decay = BaseDecay
                /\ ~Independent => param_groups[k].weight_decay = Mul(BaseDecay, Multiplier(k))
                /\ (param_groups[k].weight_decay = other.groups[k].weight_decay)
                      <=> (Multiplier(k) = One \/ BaseDecay = <<0, 1>>)

\* a bias vector of 3 elements built with decay 0.1 and no policy written
C10_Witness ==
    /\ pc = "done"
    /\ "independent_weight_decay" \notin supplied
    /\ BaseDecay = <<1, 100>>
    /\ params[1].mup_type = "bias" /\ params[1].shape = <<3>> /\ params[1].depth = 0
    /\ Multiplier(1) = <<9, 1>>
    /\ param_groups[1].weight_decay = <<1, 100>>

----------------------------------------------------------------------------
(* Property of gen_param_groups, checked under SpecGen *)

\* every tensor of ps is in exactly one group, once, and the groups hold
\* nothing else
Partition(groups, ps) ==
    /\ \A k \in 1..Len(ps) :
          Cardinality({<<g, j>> \in (1..Len(groups)) \X (1..MaxParams) :
                          j <= Len(groups[g].params) /\ groups[g].params[j] = ps[k]}) = 1
    /\ \A g \in 1..Len(groups) :
          \A j \in 1..Len(groups[g].params) :
              \E k \in 1..Len(ps) : groups[g].params[j] = ps[k]

\* C8: the groups of every successful build partition the input parameter
\* set: no parameter twice, none omitted, none foreign.
C8_GroupsPartitionInput ==
    pc = "done" => Partition(param_groups, params)

----------------------------------------------------------------------------
(* The default of readout_constraint, checked under Spec *)

\* C11 as stated: no group set is built by a construction call that leaves
\* readout_constraint out; such a call does not proceed with a constraint the
\* caller never wrote.
C11_ConstraintAlwaysSupplied ==
    pc = "done" => "readout_constraint" \in supplied

\* C11 amended: readout_constraint is an optional keyword argument of the SGD
\* wrapper whose default is None: a construction call that leaves it out ends
\* as the same call with readout_constraint = None written out ends, with the
\* same groups or the same error, and when it builds groups every weight
\* matrix gets base_lr * depth_scale * fan_in ** -0.5.
C11_OmittedConstraintIsNone ==
    (Ended /\ "readout_constraint" \notin supplied) =>
        LET written == [kwargs EXCEPT !.readout_constraint = "None"]
            r == SGD_init(params, lr, written, supplied \cup {"readout_constraint"})
        IN  /\ error = r.error
            /\ pc = "done" =>
                  /\ param_groups = r.groups
                  /\ \A k \in Positions :
                        params[k].mup_type = "weight" =>
                            param_groups[k].lr =
                                Mul(lr, Mul(lr_scale_for_depth(params[k]),
                                            PowMinusHalf(params[k].shape[2])))

\* SGD(model.parameters(), base_lr) as the notebook calls it, on a weight
\* matrix of fan-in 3: groups are built with lr = 0.1 * 3 ** -0.5
C11_Witness ==
    /\ pc = "done"
    /\ supplied = {}
    /\ params[1].mup_type = "weight"
    /\ params[1].shape = <<2, 3>>
    /\ params[1].depth = 0
    /\ param_groups[1].lr = <<1, 300>>

----------------------------------------------------------------------------
(* Several constructions of the SGD wrapper in one process, on one model *)

\* a weight matrix, a bias vector and a tensor without a tag
RepeatTensors ==
    {t \in BuildTensors : /\ t.depth = 0
                          /\ \/ t.mup_type = "weight" /\ t.shape = <<2, 3>>
                             \/ t.mup_type \in {"bias", "untagged"} /\ t.shape = <<3>>}

\* calls that write weight_decay = 0.1 and may write readout_constraint
RepeatCalls ==
    {c \in KwCalls : /\ "weight_decay" \in c.given
                     /\ c.given \subseteq {"weight_decay", "readout_constraint"}}

\* what is kept of a construction that ended
Outcome ==
    [params |-> params, lr |-> lr, kwargs |-> kwargs, supplied |-> supplied,
     error |-> error, groups |-> param_groups]

InitRepeat ==
    /\ pc = "start"
    /\ params \in ParamLists(RepeatTensors)
    /\ lr \in LearningRates
    /\ \E c \in RepeatCalls : kwargs = c.kw /\ supplied = c.given
    /\ depth_law = "inv_sqrt"
    /\ lr_mods = <<>>
    /\ mult = NotCalled
    /\ error = "none"
    /\ param_groups = <<>>
    /\ history = <<>>
    /\ heap = <<>>
    /\ dims = NotebookDims
    /\ DevIdle

\* the caller, after a construction ended either way, writes the next one
SGD_again ==
    /\ pc \in {"done", "error"}
    /\ Len(history) + 1 < MaxCalls
    /\ history' = Append(history, Outcome)
    /\ lr' \in LearningRates
    /\ \E c \in RepeatCalls : kwargs' = c.kw /\ supplied' = c.given
    /\ error' = "none"
    /\ param_groups' = <<>>
    /\ pc' = "start"
    /\ UNCHANGED <<params, depth_law, lr_mods, mult, heap, dims, dev>>

NextRepeat == SGD_constructed \/ SGD_raised \/ SGD_again

SpecRepeat == InitRepeat /\ [][NextRepeat]_vars

\* the earlier construction i had the arguments of the present one
SameArguments(i) ==
    /\ history[i].params = params
    /\ history[i].lr = lr
    /\ history[i].kwargs = kwargs
    /\ history[i].supplied = supplied

----------------------------------------------------------------------------
(* Several calls of gen_param_groups, and constructions of the SGD wrapper,  *)
(* in one process on one model                                               *)

\* two hand-written tables, of one and of two entries
RepeatMods == {<<PowHalf(2)>>, <<One, PowHalf(2)>>}

\* constructions under the default constraint and under one that fails on a
\* weight
FailingCalls == {c \in RepeatCalls : c.kw.readout_constraint \in {"unset", "gmean"}}

InitGenRepeat ==
    /\ pc = "start"
    /\ params \in ParamLists({t \in BuildTensors : t.mup_type \in {"weight", "output"}
                                                    /\ t.shape = <<2, 3>> /\ t.depth = 0})
    /\ lr \in LearningRates
    /\ \E c \in FailingCalls : kwargs = c.kw /\ supplied = c.given
    /\ depth_law = "inv_sqrt"
    /\ lr_mods \in RepeatMods
    /\ mult = NotCalled
    /\ error = "none"
    /\ param_groups = <<>>
    /\ history = <<>>
    /\ heap = <<>>
    /\ dims = NotebookDims
    /\ DevIdle

\* one call of gen_param_groups: the caller keeps the handle it got and the
\* groups it saw
GenParamGroupsCall ==
    /\ pc = "start"
    /\ LET r == gen_param_groups_call(heap, params, lr, lr_mods)
       IN  /\ heap' = r.heap
           /\ param_groups' = r.heap[r.handle]
           /\ history' = Append(history, [params |-> params, handle |-> r.handle,
                                          groups |-> r.heap[r.handle]])
    /\ pc' = "done"
    /\ UNCHANGED <<params, lr, kwargs, supplied, depth_law, lr_mods, mult, error,
                   dims, dev>>

\* after a call or a construction ended, in groups or in an error, the
\* caller writes the next one, with another table and another constraint
GenParamGroupsAgain ==
    /\ pc \in {"done", "error"}
    /\ Len(history) < MaxCalls
    /\ lr_mods' \in RepeatMods
    /\ \E c \in FailingCalls : kwargs' = c.kw /\ supplied' = c.given
    /\ error' = "none"
    /\ pc' = "start"
    /\ UNCHANGED <<params, lr, depth_law, mult, param_groups, history, heap, dims, dev>>

NextGenRepeat ==
    GenParamGroupsCall \/ GenParamGroupsAgain \/ SGD_constructed \/ SGD_raised

SpecGenRepeat == InitGenRepeat /\ [][NextGenRepeat]_vars

\* C13: a call of the builder, ending in groups or in an error, leaves the
\* parameters it was given as they were (type, shape, depth of each), and the
\* list of groups gen_param_groups returns is a new one: the groups a call
\* returned are never changed by a later call or construction.
C13_FreshGroups ==
    \A i \in DOMAIN history :
        /\ history[i].params = params
        /\ heap[history[i].handle] = history[i].groups
        /\ \A j \in DOMAIN history : j # i => history[j].handle # history[i].handle

\* two calls of gen_param_groups ended, the second with the longer table,
\* and then a construction of the SGD wrapper failed on the constraint: the
\* first list still holds its one group, the second list holds two
C13_Witness ==
    /\ pc = "error"
    /\ error = "AssertionError: Unhandled readout constraint"
    /\ Len(history) = 2
    /\ Len(params) = 2
    /\ Len(history[1].groups) = 1
    /\ Len(heap[history[1].handle]) = 1
    /\ Len(heap[history[2].handle]) = 2

----------------------------------------------------------------------------
(* The first layer, checked under SpecScale *)

----------------------------------------------------------------------------
(* The optimizers the notebook builds for ModelB and ModelC, in the order   *)
(* of its cells                                                              *)

\* variant of ModelC with the weights stored (in, out)
ModelC_transposed(d) ==
    <<[id |-> 1, mup_type |-> "weight", shape |-> <<d.d_inp, d.d_hid>>, depth |-> 0],
      [id |-> 2, mup_type |-> "weight", shape |-> <<d.d_hid, d.d_hid>>, depth |-> 0],
      [id |-> 3, mup_type |-> "output", shape |-> <<d.d_hid, d.d_out>>, depth |-> 0]>>

\* ModelC(d_inp, d_hid, d_out).parameters(): the weights of uu.Linear(d_inp, d_hid),
\* uu.Linear(d_hid, d_hid) and uu.LinearReadout(d_hid, d_out), each (out, in);
\* ModelB has the same parameters, its readout built with
\* constraint = "to_output_scale"
ModelC(d) ==
    <<[id |-> 1, mup_type |-> "weight", shape |-> <<d.d_hid, d.d_inp>>, depth |-> 0],
      [id |-> 2, mup_type |-> "weight", shape |-> <<d.d_hid, d.d_hid>>, depth |-> 0],
      [id |-> 3, mup_type |-> "output", shape |-> <<d.d_out, d.d_hid>>, depth |-> 0]>>

\* 1e-1 * b ** 0.5, 1e-1 and 1e-1 * b ** -0.5
base_lr_b(d) == Mul(Frac(1, 100), PowHalf(d.b))
base_lr_c3 == Frac(1, 100)
base_lr_a2(d) == Mul(Frac(1, 100), PowMinusHalf(d.b))

\* lr_mods of opt_b and of opt_c: (d_hid * d_inp ** 0.5, d_hid ** 0.5, 1)
lr_mods_b(d) == <<Mul(FromInt(d.d_hid), PowHalf(d.d_inp)), PowHalf(d.d_hid), One>>

\* variant of the table of opt_c2: the table of opt_b times d_out ** 0.5 in
\* every entry
lr_mods_c2_times_sqrt_d_out(d) ==
    <<Mul(Mul(FromInt(d.d_hid), PowHalf(d.d_inp)), PowHalf(d.d_out)),
      Mul(PowHalf(d.d_hid), PowHalf(d.d_out)),
      PowHalf(d.d_out)>>

\* lr_mods of opt_c2: (d_inp ** 0.5 * d_out ** 0.5, d_hid ** -0.5 * d_out ** 0.5, 1)
lr_mods_c2(d) ==
    <<Mul(PowHalf(d.d_inp), PowHalf(d.d_out)),
      Mul(PowMinusHalf(d.d_hid), PowHalf(d.d_out)),
      One>>

\* lr_mods of opt_a2: (d_inp ** -1.0 * d_out ** -0.5, d_out ** -0.5, 1)
lr_mods_a2(d) ==
    <<Mul(Frac(1, d.d_inp * d.d_inp), PowMinusHalf(d.d_out)), PowMinusHalf(d.d_out), One>>

InitTables ==
    /\ pc = "start"
    /\ dims \in [b : Dims, d_inp : Dims, d_hid : Dims, d_out : Dims]
    /\ params = ModelC(dims)
    /\ lr = Frac(1, 100)
    /\ kwargs = NoKw
    /\ supplied = {}
    /\ depth_law = "inv_sqrt"
    /\ lr_mods = <<>>
    /\ mult = NotCalled
    /\ error = "none"
    /\ param_groups = <<>>
    /\ history = <<>>
    /\ heap = <<>>
    /\ DevIdle

\* opt_b = torch.optim.SGD(gen_param_groups(model_b, base_lr, lr_mods=...))
Opt_b ==
    /\ pc = "start"
    /\ lr' = base_lr_b(dims)
    /\ lr_mods' = lr_mods_b(dims)
    /\ LET groups == gen_param_groups(params, base_lr_b(dims), lr_mods_b(dims))
       IN  /\ param_groups' = groups
           /\ history' = Append(history, groups)
    /\ pc' = "opt_b"
    /\ UNCHANGED <<params, kwargs, supplied, depth_law, mult, error, heap, dims, dev>>

\* opt_c: the same table on ModelC
Opt_c ==
    /\ pc = "opt_b"
    /\ lr' = base_lr_b(dims)
    /\ lr_mods' = lr_mods_b(dims)
    /\ LET groups == gen_param_groups(params, base_lr_b(dims), lr_mods_b(dims))
       IN  /\ param_groups' = groups
           /\ history' = Append(history, groups)
    /\ pc' = "opt_c"
    /\ UNCHANGED <<params, kwargs, supplied, depth_law, mult, error, heap, dims, dev>>

\* opt_c2: the table corrected by hand
Opt_c2 ==
    /\ pc = "opt_c"
    /\ lr' = base_lr_b(dims)
    /\ lr_mods' = lr_mods_c2(dims)
    /\ LET groups == gen_param_groups(params, base_lr_b(dims), lr_mods_c2(dims))
       IN  /\ param_groups' = groups
           /\ history' = Append(history, groups)
    /\ pc' = "opt_c2"
    /\ UNCHANGED <<params, kwargs, supplied, depth_law, mult, error, heap, dims, dev>>

\* opt_c3 = SGD(model_c3.parameters(), base_lr)
Opt_c3 ==
    /\ pc = "opt_c2"
    /\ lr' = base_lr_c3
    /\ lr_mods' = <<>>
    /\ LET r == SGD_init(params, base_lr_c3, NoKw, {})
       IN  /\ error' = r.error
           /\ param_groups' = r.groups
           /\ history' = Append(history, r.groups)
    /\ pc' = "opt_c3"
    /\ UNCHANGED <<params, kwargs, supplied, depth_law, mult, heap, dims, dev>>

NextTables == Opt_b \/ Opt_c \/ Opt_c2 \/ Opt_c3

SpecTables == InitTables /\ [][NextTables]_vars

\* the groups of opt_b, opt_c, opt_c2 and opt_c3 once built
Groups_b == history[1]
Groups_c == history[2]
Groups_c2 == history[3]
Groups_c3 == history[4]

\* C16 as stated: the learning rates of opt_c2 are those of the table of
\* scenario B with the entry of every weight and of the output multiplied by
\* d_out ** 0.5.
C16_TimesSqrtDOut ==
    Len(history) >= 3 =>
        \A k \in 1..Layers :
            Groups_c2[k].lr = Mul(Groups_b[k].lr, PowHalf(dims.d_out))

\* C16 amended: the learning rates of opt_c2 are those of the table of
\* scenario B (and of opt_c) with the entry of every weight multiplied by
\* d_out ** 0.5 / d_hid and the entry of the output left at 1.
C16_TimesSqrtDOutOverDHid ==
    Len(history) >= 3 =>
        /\ Groups_c = Groups_b
        /\ Len(Groups_c2) = Layers
        /\ \A k \in 1..Layers :
              /\ params[k].mup_type = "weight" =>
                    Groups_c2[k].lr =
                        Mul(Groups_b[k].lr,
                            Mul(PowHalf(dims.d_out), Frac(1, dims.d_hid * dims.d_hid)))
              /\ params[k].mup_type = "output" =>
                    /\ Groups_c2[k].lr = Groups_b[k].lr
                    /\ Groups_c2[k].lr = base_lr_b(dims)

\* opt_c2 built for b = 3, d_inp = 2, d_hid = 3, d_out = 2: the first weight
\* goes from 0.1 * 3 ** 0.5 * 3 * 2 ** 0.5 to 0.1 * 3 ** 0.5 * 2
C16_Witness ==
    /\ pc = "opt_c2"
    /\ dims = [b |-> 3, d_inp |-> 2, d_hid |-> 3, d_out |-> 2]
    /\ Groups_b[1].lr = <<27, 50>>
    /\ Groups_c2[1].lr = <<3, 25>>
    /\ Groups_c2[3].lr = <<3, 100>>

\* C17: for the three-layer model (weight, weight, output) at depth_scale 1
\* under the default constraint, the learning rates the SGD wrapper sets from
\* base_lr = 0.1 are those of the hand-corrected table of opt_c2 times
\* b ** -0.5 * (d_inp ** -1 * d_out ** -0.5, d_out ** -0.5, 1), the table of
\* opt_a2; the same factors relate the two at every other hidden width, so
\* they do not depend on d_hid.
C17_LibraryOverReference ==
    pc = "opt_c3" =>
        /\ error = "none"
        /\ Len(Groups_c3) = Layers
        /\ \A k \in 1..Layers :
              /\ Groups_c3[k].lr =
                    Mul(Groups_c2[k].lr,
                        Mul(PowMinusHalf(dims.b), lr_mods_a2(dims)[k]))
              /\ \A h \in Dims :
                    LET d == [dims EXCEPT !.d_hid = h]
                        library == SGD_init(ModelC(d), base_lr_c3, NoKw, {}).groups
                        reference == gen_param_groups(ModelC(d), base_lr_b(d), lr_mods_c2(d))
                    IN  library[k].lr =
                            Mul(reference[k].lr,
                                Mul(PowMinusHalf(dims.b), lr_mods_a2(dims)[k]))
        /\ Mul(base_lr_b(dims), base_lr_a2(dims)) = Mul(base_lr_c3, base_lr_c3)

\* opt_c3 built for b = 3, d_inp = 2, d_hid = 3, d_out = 2: the library sets
\* 0.1 * 2 ** -0.5, 0.1 * 3 ** -0.5 and 0.1
C17_Witness ==
    /\ pc = "opt_c3"
    /\ dims = [b |-> 3, d_inp |-> 2, d_hid |-> 3, d_out |-> 2]
    /\ Groups_c3[1].lr = <<1, 200>>
    /\ Groups_c3[2].lr = <<1, 300>>
    /\ Groups_c3[3].lr = <<1, 100>>
    /\ Groups_c2[2].lr = <<1, 50>>

----------------------------------------------------------------------------
(* The dev task launcher: ./dev ci *)

\* exit codes of a child process as subprocess.call returns them: success,
\* two failures, and a child killed by signal 9
ExitCodes == {0, 1, 2, -9}

\* what the copyright check's pipeline prints: nothing, or the files without
\* a header
Outputs == {"", "unit_scaling/x.py"}

\* the skip lists argparse lets through (choices of --skip)
SkipChoices == {"tests", "lint", "format", "copyright"}

\* the launcher process as the functions below pass it on: the commands
\* started, whether sys.exit was called, and with what
Process == [started |-> started, exited |-> FALSE, exit_code |-> 0]

\* a command started in step s that returned code; failed: the launcher
\* took it as a failure
Command(s, cmd, code, failed) == [step |-> s, cmd |-> cmd, code |-> code, failed |-> failed]

\* variant of run that does not look at the exit code
run_ignores_exit_code(p, s, cmd, code) ==
    IF p.exited
    THEN p
    ELSE [started |-> Append(p.started, Command(s, cmd, code, code # 0)),
          exited |-> FALSE,
          exit_code |-> 0]

\* run(command): the command is started, and a non-zero exit code ends the
\* process with that code (of which the parent sees the low 8 bits); nothing
\* runs in a process that has exited
run(p, s, cmd, code) ==
    IF p.exited
    THEN p
    ELSE [started |-> Append(p.started, Command(s, cmd, code, code # 0)),
          exited |-> code # 0,
          exit_code |-> code % 256]

tests(p, codes) == run(p, "tests", "pytest", codes[1])

lint(p, codes) == run(run(p, "lint", "flake8", codes[1]), "lint", "mypy", codes[2])

format(p, codes) ==
    run(run(p, "format", "black --check", codes[1]), "format", "isort --check", codes[2])

\* copyright(): the exit code of the pipeline is not looked at; any output
\* ends the process with code 1
copyright(p, code, output) ==
    IF p.exited
    THEN p
    ELSE [started |-> Append(p.started, Command("copyright", "find | xargs grep -L", code, output # "")),
          exited |-> output # "",
          exit_code |-> IF output # "" THEN 1 ELSE 0]

\* doc(): rm is started by subprocess.call and its exit code dropped, make
\* goes through run
doc(p, codes) ==
    IF p.exited
    THEN p
    ELSE run([p EXCEPT !.started = Append(@, Command("doc", "rm -r", codes[1], FALSE))],
             "doc", "make html", codes[2])

InitCI ==
    /\ step = "tests"
    /\ skip \in SUBSET SkipChoices
    /\ started = <<>>
    /\ exit_code = 0
    /\ pc = "start"
    /\ params = <<>>
    /\ lr = Frac(1, 100)
    /\ kwargs = NoKw
    /\ supplied = {}
    /\ depth_law = "inv_sqrt"
    /\ lr_mods = <<>>
    /\ mult = NotCalled
    /\ error = "none"
    /\ param_groups = <<>>
    /\ history = <<>>
    /\ heap = <<>>
    /\ dims = NotebookDims

\* ci goes on to the next step with the process p, unless p has exited
Proceed(p, next) ==
    /\ started' = p.started
    /\ step' = IF p.exited THEN "exited" ELSE next
    /\ exit_code' = p.exit_code
    /\ UNCHANGED <<skip, notebook>>

\* if "tests" not in skip: tests(filter=None)
Ci_tests ==
    /\ step = "tests"
    /\ IF "tests" \notin skip
       THEN \E codes \in [1..1 -> ExitCodes] : Proceed(tests(Process, codes), "lint")
       ELSE Proceed(Process, "lint")

\* if "lint" not in skip: lint()
Ci_lint ==
    /\ step = "lint"
    /\ IF "lint" \notin skip
       THEN \E codes \in [1..2 -> ExitCodes] : Proceed(lint(Process, codes), "format")
       ELSE Proceed(Process, "format")

\* if "format" not in skip: format(check=True)
Ci_format ==
    /\ step = "format"
    /\ IF "format" \notin skip
       THEN \E codes \in [1..2 -> ExitCodes] : Proceed(format(Process, codes), "copyright")
       ELSE Proceed(Process, "copyright")

\* if "copyright" not in skip: copyright()
Ci_copyright ==
    /\ step = "copyright"
    /\ IF "copyright" \notin skip
       THEN \E code \in ExitCodes, output \in Outputs :
                Proceed(copyright(Process, code, output), "doc")
       ELSE Proceed(Process, "doc")

\* if "doc" not in skip: doc(); then ci returns and the process ends with 0
Ci_doc ==
    /\ step = "doc"
    /\ IF "doc" \notin skip
       THEN \E codes \in [1..2 -> ExitCodes] : Proceed(doc(Process, codes), "finished")
       ELSE Proceed(Process, "finished")

NextCI == Ci_tests \/ Ci_lint \/ Ci_format \/ Ci_copyright \/ Ci_doc

SpecCI == InitCI /\ [][NextCI]_vars

\* the commands of a full ci run in their order, by step; checked: a failure
\* of the command is meant to end the run
CiOrder ==
    <<[step |-> "tests", cmd |-> "pytest", checked |-> TRUE],
      [step |-> "lint", cmd |-> "flake8", checked |-> TRUE],
      [step |-> "lint", cmd |-> "mypy", checked |-> TRUE],
      [step |-> "format", cmd |-> "black --check", checked |-> TRUE],
      [step |-> "format", cmd |-> "isort --check", checked |-> TRUE],
      [step |-> "copyright", cmd |-> "find | xargs grep -L", checked |-> TRUE],
      [step |-> "doc", cmd |-> "rm -r", checked |-> FALSE],
      [step |-> "doc", cmd |-> "make html", checked |-> TRUE]>>

NotSkipped(e) == e.step \notin skip

\* C19: ci starts the commands of the steps tests, lint, format --check,
\* copyright, doc in that order, those of a step only if the step is not in
\* skip; the first command started by run that returns non-zero, or a
\* copyright check that finds a file, ends the process with a non-zero exit
\* code before any later command is started; ci finishes normally only when
\* every command of every step not skipped was started and none of them
\* failed.
C19_CiStopsAtFirstFailure ==
    LET plan == SelectSeq(CiOrder, NotSkipped)
        ran == DOMAIN started
    IN  /\ Len(started) <= Len(plan)
        /\ \A i \in ran : /\ started[i].step = plan[i].step
                          /\ started[i].cmd = plan[i].cmd
                          /\ started[i].step \notin skip
        /\ \A i \in ran :
              (plan[i].checked /\ IF started[i].step = "copyright"
                                  THEN started[i].failed
                                  ELSE started[i].code # 0)
                  => /\ i = Len(started)
                     /\ step = "exited"
                     /\ exit_code # 0
        /\ step = "exited" => /\ exit_code # 0
                              /\ started # <<>>
        /\ step = "finished" => /\ exit_code = 0
                                /\ Len(started) = Len(plan)

\* tests skipped, flake8 passed, mypy returned 2: the process has exited
\* with 2 and black was not started
C19_Witness ==
    /\ step = "exited"
    /\ skip = {"tests"}
    /\ Len(started) = 2
    /\ started[1].cmd = "flake8"
    /\ started[1].code = 0
    /\ started[2].cmd = "mypy"
    /\ started[2].code = 2
    /\ exit_code = 2

====
